---- MODULE Spec2Model ----
(***************************************************************************)
(* Model of the attribution engine of agent-trace (trace-store and the     *)
(* hook handler): the range diff engine (computeRangePositions and         *)
(* diffToFindChangedLines), the model resolver (normalizeModelId and the   *)
(* transcript tail reader extractModelFromTranscript), the trace record    *)
(* builder (createTrace, toRelativePath), the append-only store            *)
(* (appendTrace) and one invocation of the hook handler (main).            *)
(*                                                                         *)
(* Each component has its own specification (SpecRanges, SpecTranscript,   *)
(* SpecNormalize, SpecTrace, SpecStore, SpecHook, SpecDiff); the variables *)
(* of the other components rest at their idle values meanwhile.            *)
(*                                                                         *)
(* Text is modelled at the level the code works on it: a string is a       *)
(* sequence of one-character strings, "\n" is the line break, and          *)
(* split / indexOf / substring / trim are computed as JavaScript computes  *)
(* them.  An optional value (T | undefined) is a sequence of length at     *)
(* most one: << >> is undefined and << v >> is the value v.                *)
(***************************************************************************)
EXTENDS Integers, Sequences, FiniteSets, TLC

VARIABLES
    pc,             \* position of the running call
    edits,          \* computeRangePositions: argument `edits`
    fileContent,    \* computeRangePositions: optional argument `fileContent`
    rangePositions, \* computeRangePositions: optional returned array
    transcript,     \* extractModelFromTranscript: the bytes of the file at transcriptPath
    readSize,       \* extractModelFromTranscript: local `readSize`
    reads,          \* history: the window sizes handed to readSync, in order
    model,          \* extractModelFromTranscript: optional returned model
    ioError,        \* history: the file system call that failed, "none" when none did
    raised,         \* TRUE when an exception left extractModelFromTranscript
    rawModel,       \* normalizeModelId: optional argument `model`
    normalized,     \* normalizeModelId(rawModel), once computed
    renormalized,   \* normalizeModelId applied to `normalized`, once computed
    traceArgs,      \* createTrace: its arguments and the environment it reads
    trace,          \* createTrace: optional returned TraceRecord
    log,            \* appendTrace: the bytes of .agent-trace/traces.jsonl
    dirExists,      \* appendTrace: whether the directory .agent-trace exists
    writers,        \* appendTrace: the invocations appending, each with its position
    hook,           \* main: the state of one invocation of the hook handler
    diff            \* diffToFindChangedLines: its arguments and loop variables

rangeVars == <<edits, fileContent, rangePositions>>

transcriptVars == <<transcript, readSize, reads, model, ioError, raised>>

normalizeVars == <<rawModel, normalized, renormalized>>

traceVars == <<traceArgs, trace>>

storeVars == <<log, dirExists, writers>>

\* The variables of the components other than the range engine and the
\* transcript reader.
otherVars == <<normalizeVars, traceVars, storeVars, hook, diff>>

vars == <<pc, rangeVars, transcriptVars, otherVars>>

(***************************************************************************)
(* Optional values and small helpers                                       *)
(***************************************************************************)
undefined == << >>

Some(v) == << v >>

IsDefined(o) == o # << >>

NL == "\n"

Min(a, b) == IF a <= b THEN a ELSE b

\* JavaScript truthiness of a string: only "" is falsy.
TruthyString(s) == s # << >>

\* JavaScript truthiness of `string | undefined`.
TruthyOptString(o) == IsDefined(o) /\ TruthyString(o[1])

(***************************************************************************)
(* The components at rest                                                  *)
(***************************************************************************)
NormalizeIdle ==
    /\ rawModel = undefined
    /\ normalized = undefined
    /\ renormalized = undefined

TraceIdle ==
    /\ traceArgs = << >>
    /\ trace = undefined

StoreIdle == log = << >> /\ dirExists = FALSE /\ writers = << >>
    /\ log = << >>
    /\ dirExists = FALSE
    /\ writers = << >>

HookIdle == hook = << >>

DiffIdle == diff = << >>

OthersIdle == NormalizeIdle /\ TraceIdle /\ StoreIdle /\ HookIdle /\ DiffIdle

(***************************************************************************)
(* String primitives, computed as String.prototype does                    *)
(***************************************************************************)
\* s.split("\n"): the pieces between line breaks; "" splits to [""].
RECURSIVE SplitFrom(_, _, _)
SplitFrom(s, i, cur) ==
    IF i > Len(s) THEN << cur >>
    ELSE IF s[i] = NL THEN << cur >> \o SplitFrom(s, i + 1, << >>)
    ELSE SplitFrom(s, i + 1, Append(cur, s[i]))

Split(s) == SplitFrom(s, 1, << >>)

\* s.substring(0, n)
Substring0(s, n) == SubSeq(s, 1, n)

\* s.startsWith(needle, i), i 0-based
MatchesAt(s, needle, i) ==
    /\ i + Len(needle) <= Len(s)
    /\ \A k \in 1..Len(needle) : s[i + k] = needle[k]

\* s.indexOf(needle): 0-based index of the first occurrence, -1 when none.
RECURSIVE IndexOfFrom(_, _, _)
IndexOfFrom(s, needle, i) ==
    IF i + Len(needle) > Len(s) THEN -1
    ELSE IF MatchesAt(s, needle, i) THEN i
    ELSE IndexOfFrom(s, needle, i + 1)

\* s.lastIndexOf(needle), used by a mutant only.
IndexOfLast(s, needle) ==
    LET hits == { i \in 0..Len(s) : MatchesAt(s, needle, i) }
    IN  IF hits = {} THEN -1 ELSE CHOOSE i \in hits : \A j \in hits : j <= i

IndexOf(s, needle) == IndexOfFrom(s, needle, 0)

(***************************************************************************)
(* diffToFindChangedLines                                                  *)
(***************************************************************************)
\* A plausible slip: the inner loop starts at the first old line.
LookAheadFromStart(oldLines, line, k) ==
    LET hits == { j \in 0..(Len(oldLines) - 1) : oldLines[j + 1] = line }
    IN  IF hits = {} THEN -1 ELSE CHOOSE j \in hits : \A h \in hits : j <= h

\* The inner loop: the first lookAhead >= k with oldLines[lookAhead] = line,
\* or -1 (foundAhead stays false).  Indices are 0-based as in the code.
RECURSIVE LookAhead(_, _, _)
LookAhead(oldLines, line, k) ==
    IF k >= Len(oldLines) THEN -1
    ELSE IF oldLines[k + 1] = line THEN k
    ELSE LookAhead(oldLines, line, k + 1)

\* The outer loop from (newIdx, oldIdx) with the offsets pushed so far.
RECURSIVE DiffLoop(_, _, _, _, _)
DiffLoop(oldLines, newLines, newIdx, oldIdx, changedOffsets) ==
    IF newIdx >= Len(newLines) THEN changedOffsets
    ELSE IF oldIdx < Len(oldLines) /\ oldLines[oldIdx + 1] = newLines[newIdx + 1]
         THEN DiffLoop(oldLines, newLines, newIdx + 1, oldIdx + 1, changedOffsets)
    ELSE LET found == LookAhead(oldLines, newLines[newIdx + 1], oldIdx)
         IN  IF found # -1
             THEN DiffLoop(oldLines, newLines, newIdx + 1, found + 1, changedOffsets)
             ELSE DiffLoop(oldLines, newLines, newIdx + 1, oldIdx,
                           Append(changedOffsets, newIdx))

\* A plausible slip: the offsets pushed are line numbers counted from 1.
diffToFindChangedLinesOneBased(oldStr, newStr) ==
    LET c == DiffLoop(Split(oldStr), Split(newStr), 0, 0, << >>)
    IN  [ k \in 1..Len(c) |-> c[k] + 1 ]

diffToFindChangedLines(oldStr, newStr) ==
    DiffLoop(Split(oldStr), Split(newStr), 0, 0, << >>)

(***************************************************************************)
(* computeRangePositions                                                   *)
(***************************************************************************)
Range(s, e) == [start_line |-> s, end_line |-> e]

\* The merge loop over changedOffsets[i..] (i 0-based) and the final push.
RECURSIVE MergeLoop(_, _, _, _, _, _)
MergeLoop(changedOffsets, i, rangeStart, rangeEnd, ranges, startLine) ==
    IF i >= Len(changedOffsets)
    THEN Append(ranges, Range(startLine + rangeStart, startLine + rangeEnd))
    ELSE IF changedOffsets[i + 1] = rangeEnd + 1
         THEN MergeLoop(changedOffsets, i + 1, rangeStart, changedOffsets[i + 1],
                        ranges, startLine)
    ELSE MergeLoop(changedOffsets, i + 1, changedOffsets[i + 1], changedOffsets[i + 1],
                   Append(ranges, Range(startLine + rangeStart, startLine + rangeEnd)),
                   startLine)

\* A plausible slip: the run is closed but rangeStart is not reset.
RECURSIVE MergeLoopKeepStart(_, _, _, _, _, _)
MergeLoopKeepStart(changedOffsets, i, rangeStart, rangeEnd, ranges, startLine) ==
    IF i >= Len(changedOffsets)
    THEN Append(ranges, Range(startLine + rangeStart, startLine + rangeEnd))
    ELSE IF changedOffsets[i + 1] = rangeEnd + 1
         THEN MergeLoopKeepStart(changedOffsets, i + 1, rangeStart,
                                 changedOffsets[i + 1], ranges, startLine)
    ELSE MergeLoopKeepStart(changedOffsets, i + 1, rangeStart, changedOffsets[i + 1],
                   Append(ranges, Range(startLine + rangeStart, startLine + rangeEnd)),
                   startLine)

MergeOffsetsKeepStart(changedOffsets, startLine) ==
    IF Len(changedOffsets) = 0 THEN << >>
    ELSE MergeLoopKeepStart(changedOffsets, 1, changedOffsets[1], changedOffsets[1],
                            << >>, startLine)

\* "Convert offsets to line ranges, merging adjacent lines"
MergeOffsets(changedOffsets, startLine) ==
    IF Len(changedOffsets) = 0 THEN << >>
    ELSE MergeLoop(changedOffsets, 1, changedOffsets[1], changedOffsets[1],
                   << >>, startLine)

\* A plausible slip: lastIndexOf in place of indexOf.
StartLineLast(content, newString) ==
    Len(Split(Substring0(content, IndexOfLast(content, newString))))

\* fileContent.substring(0, idx).split("\n").length
StartLine(content, newString) ==
    Len(Split(Substring0(content, IndexOf(content, newString))))

\* A plausible slip: the end line is counted from the line after the start.
FallbackRangeOffByOne(edit, content) ==
    LET lineCount == Len(Split(edit.new_string))
    IN  IF TruthyOptString(content) /\ IndexOf(content[1], edit.new_string) # -1
        THEN LET startLine == StartLine(content[1], edit.new_string)
             IN  << Range(startLine, startLine + lineCount) >>
        ELSE << Range(1, lineCount) >>

\* Case 3: the whole new_string as one range.
FallbackRange(edit, content) ==
    LET lineCount == Len(Split(edit.new_string))
    IN  IF TruthyOptString(content) /\ IndexOf(content[1], edit.new_string) # -1
        THEN LET startLine == StartLine(content[1], edit.new_string)
             IN  << Range(startLine, startLine + lineCount - 1) >>
        ELSE << Range(1, lineCount) >>

\* A plausible slip: the diff of case 2 is left out ("original behavior").
EditRangesNoDiff(edit, content) == FallbackRange(edit, content)

\* The flatMap callback without the explicit-range case.
EditRangesIgnoringRange(edit, content) ==
    IF /\ TruthyString(edit.old_string)
       /\ TruthyString(edit.new_string)
       /\ TruthyOptString(content)
       /\ IndexOf(content[1], edit.new_string) # -1
    THEN MergeOffsets(diffToFindChangedLines(edit.old_string, edit.new_string),
                      StartLine(content[1], edit.new_string))
    ELSE FallbackRange(edit, content)

\* A plausible slip: the cases are tried in the wrong order, the diff first.
EditRangesDiffFirst(edit, content) ==
    IF /\ IsDefined(edit.range)
       /\ ~(/\ TruthyString(edit.old_string)
            /\ TruthyOptString(content)
            /\ IndexOf(content[1], edit.new_string) # -1)
    THEN << Range(edit.range[1].start_line_number, edit.range[1].end_line_number) >>
    ELSE EditRangesIgnoringRange(edit, content)

\* The flatMap callback: the ranges one (already filtered) edit contributes.
EditRanges(edit, content) ==
    IF IsDefined(edit.range)
    THEN << Range(edit.range[1].start_line_number, edit.range[1].end_line_number) >>
    ELSE EditRangesIgnoringRange(edit, content)

\* A plausible slip: the explicit range is looked at before new_string.
RECURSIVE FlatMapRangeFirst(_, _)
FlatMapRangeFirst(es, content) ==
    IF es = << >> THEN << >>
    ELSE (IF IsDefined(Head(es).range) \/ TruthyString(Head(es).new_string)
          THEN EditRanges(Head(es), content) ELSE << >>)
         \o FlatMapRangeFirst(Tail(es), content)

\* edits.filter((e) => e.new_string).flatMap(...)
RECURSIVE computeRangePositions(_, _)
computeRangePositions(es, content) ==
    IF es = << >> THEN << >>
    ELSE (IF TruthyString(Head(es).new_string)
          THEN EditRanges(Head(es), content) ELSE << >>)
         \o computeRangePositions(Tail(es), content)

(***************************************************************************)
(* extractModelFromTranscript                                              *)
(*                                                                         *)
(* A transcript is a sequence of bytes.  JSON is modelled by a small       *)
(* token language with the structure the code depends on: "{" and "}"      *)
(* delimit an object, the byte "A" (or "B") inside an object stands for    *)
(* the member "message":{"model":"A"}, "n" is the JSON value null, "0" is  *)
(* a number, " " is white space and every other arrangement of bytes       *)
(* ("x" is a byte of no meaning) is not valid JSON.                        *)
(***************************************************************************)
\* The initial window, `4 * 1024` in the code, scaled to the size of the
\* transcripts explored.
InitialReadSize == 4

ModelIds == { "A", "B" }

SP == " "

\* String.prototype.trim()
RECURSIVE TrimStart(_)
TrimStart(s) == IF s # << >> /\ Head(s) = SP THEN TrimStart(Tail(s)) ELSE s

RECURSIVE TrimEnd(_)
TrimEnd(s) ==
    IF s # << >> /\ s[Len(s)] = SP THEN TrimEnd(SubSeq(s, 1, Len(s) - 1)) ELSE s

Trim(s) == TrimEnd(TrimStart(s))

\* The tokens of a text: JSON ignores white space between tokens.
Tokens(text) == SelectSeq(text, LAMBDA c : c # SP)

JsonValue(type, m) == [type |-> type, model |-> m]

\* JSON.parse(line): the value, or a SyntaxError.
JSONParse(text) ==
    LET t == Tokens(text)
    IN  IF t = << "n" >> THEN [threw |-> FALSE, value |-> JsonValue("null", undefined)]
        ELSE IF t = << "0" >>
             THEN [threw |-> FALSE, value |-> JsonValue("number", undefined)]
        ELSE IF t = << "{", "}" >>
             THEN [threw |-> FALSE, value |-> JsonValue("object", undefined)]
        ELSE IF Len(t) = 3 /\ t[1] = "{" /\ t[2] \in ModelIds /\ t[3] = "}"
             THEN [threw |-> FALSE, value |-> JsonValue("object", Some(t[2]))]
        ELSE [threw |-> TRUE, value |-> JsonValue("SyntaxError", undefined)]

\* How a piece of code ends: it returns a value, throws, goes on to the next
\* line, or goes round the while loop with a new readSize.
Return(v) == [kind |-> "return", value |-> v, readSize |-> 0]

Throw == [kind |-> "throw", value |-> undefined, readSize |-> 0]

NextLine == [kind |-> "next", value |-> undefined, readSize |-> 0]

Loop(n) == [kind |-> "loop", value |-> undefined, readSize |-> n]

\* The body of the inner try: JSON.parse may throw, and entry.message throws a
\* TypeError when entry is null; any other value without message.model falls out.
TryBody(line) ==
    LET parsed == JSONParse(line)
    IN  IF parsed.threw THEN Throw
        ELSE IF parsed.value.type = "null" THEN Throw
        ELSE IF IsDefined(parsed.value.model) THEN Return(parsed.value.model)
        ELSE NextLine

\* A plausible slip: the catch skips malformed JSON only, not the TypeError.
LineStepSyntaxErrorOnly(rawLine) ==
    LET line == Trim(rawLine)
    IN  IF line = << >> THEN NextLine
        ELSE IF JSONParse(line).threw THEN NextLine
        ELSE TryBody(line)

\* The body of the for loop: trim, skip a blank line, try, catch -> continue.
LineStep(rawLine) ==
    LET line == Trim(rawLine)
    IN  IF line = << >> THEN NextLine
        ELSE LET r == TryBody(line)
             IN  IF r.kind = "throw" THEN NextLine ELSE r

\* for (let i = lines.length - 1; i >= 0; i--)
RECURSIVE ScanLines(_, _)
ScanLines(lines, i) ==
    IF i < 0 THEN NextLine
    ELSE LET r == LineStep(lines[i + 1])
         IN  IF r.kind = "next" THEN ScanLines(lines, i - 1) ELSE r

\* A plausible slip: a model found in a window that is not yet the whole file
\* is not returned at once, the loop widens the window first.
WhileBodyNoEarlyReturn(content, size, n) ==
    LET lines == Split(content)
        r     == ScanLines(lines, Len(lines) - 1)
    IN  IF n >= size
        THEN (IF r.kind # "next" THEN r ELSE Return(undefined))
        ELSE Loop(Min(size, n * 2))

\* One round of the while loop on the window `content` of n = readSize bytes.
WhileBody(content, size, n) ==
    LET lines == Split(content)
        r     == ScanLines(lines, Len(lines) - 1)
    IN  IF r.kind # "next" THEN r
        ELSE IF n >= size THEN Return(undefined)
        ELSE Loop(Min(size, n * 2))

\* The outer try / catch: whatever is thrown becomes `return undefined`.
OuterCatch(r) == IF r.kind = "throw" THEN Return(undefined) ELSE r

\* readSync(fd, buffer, 0, readSize, stats.size - readSize) and toString
Window(bytes, n) == SubSeq(bytes, Len(bytes) - n + 1, Len(bytes))

(***************************************************************************)
(* normalizeModelId                                                        *)
(***************************************************************************)
SLASH == "/"

\* model.includes("/")
Includes(s, c) == \E k \in 1..Len(s) : s[k] = c

\* model.startsWith(prefix)
StartsWith(s, prefix) == MatchesAt(s, prefix, 0)

PrefixEntry(prefix, provider) == [prefix |-> prefix, provider |-> provider]

ANTHROPIC == << "a", "n", "t", "h", "r", "o", "p", "i", "c" >>

OPENAI == << "o", "p", "e", "n", "a", "i" >>

GOOGLE == << "g", "o", "o", "g", "l", "e" >>

\* A plausible slip: the Google prefix is written without its hyphen.
PrefixesGeminiNoHyphen ==
    << PrefixEntry(<< "c", "l", "a", "u", "d", "e", "-" >>, ANTHROPIC),
       PrefixEntry(<< "g", "p", "t", "-" >>, OPENAI),
       PrefixEntry(<< "o", "1" >>, OPENAI),
       PrefixEntry(<< "o", "3" >>, OPENAI),
       PrefixEntry(<< "g", "e", "m", "i", "n", "i" >>, GOOGLE) >>

\* Object.entries(prefixes): the entries in the order they are written.
Prefixes ==
    << PrefixEntry(<< "c", "l", "a", "u", "d", "e", "-" >>, ANTHROPIC),
       PrefixEntry(<< "g", "p", "t", "-" >>, OPENAI),
       PrefixEntry(<< "o", "1" >>, OPENAI),
       PrefixEntry(<< "o", "3" >>, OPENAI),
       PrefixEntry(<< "g", "e", "m", "i", "n", "i", "-" >>, GOOGLE) >>

\* The for loop over the entries from entry k on, and the final `return model`.
RECURSIVE PrefixLoop(_, _)
PrefixLoop(m, k) ==
    IF k > Len(Prefixes) THEN m
    ELSE IF StartsWith(m, Prefixes[k].prefix)
         THEN Prefixes[k].provider \o << SLASH >> \o m
    ELSE PrefixLoop(m, k + 1)

\* A plausible slip: an id that is already qualified is cut down to the part
\* behind its provider instead of being returned as it is.
normalizeModelIdRequalify(m) ==
    IF ~TruthyOptString(m) THEN undefined
    ELSE IF Includes(m[1], SLASH)
         THEN Some(SubSeq(m[1], 1 + (CHOOSE k \in 1..Len(m[1]) :
                                        m[1][k] = SLASH /\ \A j \in 1..(k - 1) : m[1][j] # SLASH),
                          Len(m[1])))
    ELSE Some(PrefixLoop(m[1], 1))

normalizeModelId(m) ==
    IF ~TruthyOptString(m) THEN undefined
    ELSE IF Includes(m[1], SLASH) THEN m
    ELSE Some(PrefixLoop(m[1], 1))

(***************************************************************************)
(* The environment of one invocation, and the functions that read it       *)
(***************************************************************************)
\* What a function call ends in: a value, or an exception.
Ok(v) == [threw |-> FALSE, value |-> Some(v)]

Raise == [threw |-> TRUE, value |-> undefined]

\* String.prototype.trim() on the output of a command: spaces and line breaks.
TrimWhite(s) ==
    LET kept == { k \in 1..Len(s) : s[k] \notin { SP, NL } }
    IN  IF kept = {} THEN << >>
        ELSE SubSeq(s, CHOOSE k \in kept : \A j \in kept : k <= j,
                       CHOOSE k \in kept : \A j \in kept : j <= k)

\* process.env and the answers of git.  gitTopLevel and gitHead are the output
\* of `git rev-parse --show-toplevel` and `git rev-parse HEAD`; undefined means
\* that execFileSync throws (not a repository, or no git).
Env(cursorDir, claudeDir, cursorVersion, gitTopLevel, gitHead) ==
    [CURSOR_PROJECT_DIR |-> cursorDir, CLAUDE_PROJECT_DIR |-> claudeDir,
     CURSOR_VERSION |-> cursorVersion, gitTopLevel |-> gitTopLevel, gitHead |-> gitHead]

\* The ?? chain: execFileSync returns a string or throws, so process.cwd() is
\* never reached.
getWorkspaceRoot(env, cwd) ==
    IF IsDefined(env.CURSOR_PROJECT_DIR) THEN Ok(env.CURSOR_PROJECT_DIR[1])
    ELSE IF IsDefined(env.CLAUDE_PROJECT_DIR) THEN Ok(env.CLAUDE_PROJECT_DIR[1])
    ELSE IF IsDefined(env.gitTopLevel) THEN Ok(TrimWhite(env.gitTopLevel[1]))
    ELSE Raise

ToolInfo(name, version) == [name |-> name, version |-> version]

getToolInfo(env) ==
    IF TruthyOptString(env.CURSOR_VERSION) THEN ToolInfo(<< "c", "u", "r", "s", "o", "r" >>, env.CURSOR_VERSION)
    ELSE IF TruthyOptString(env.CLAUDE_PROJECT_DIR) THEN ToolInfo(<< "c", "l", "a", "u", "d", "e", "-", "c", "o", "d", "e" >>, undefined)
    ELSE ToolInfo(<< "u", "n", "k", "n", "o", "w", "n" >>, undefined)

\* try { git rev-parse HEAD } catch { return undefined }
getVcsInfo(env) ==
    IF IsDefined(env.gitHead)
    THEN Some([type |-> << "g", "i", "t" >>, revision |-> TrimWhite(env.gitHead[1])])
    ELSE undefined

(***************************************************************************)
(* toRelativePath                                                          *)
(***************************************************************************)
\* The segments of a path: the pieces between slashes, empty pieces dropped.
RECURSIVE SegmentsFrom(_, _, _)
SegmentsFrom(p, i, cur) ==
    IF i > Len(p) THEN (IF cur = << >> THEN << >> ELSE << cur >>)
    ELSE IF p[i] = SLASH
         THEN (IF cur = << >> THEN << >> ELSE << cur >>) \o SegmentsFrom(p, i + 1, << >>)
    ELSE SegmentsFrom(p, i + 1, Append(cur, p[i]))

Segments(p) == SegmentsFrom(p, 1, << >>)

\* segments.join("/")
RECURSIVE JoinPath(_)
JoinPath(segs) ==
    IF segs = << >> THEN << >>
    ELSE IF Len(segs) = 1 THEN segs[1]
    ELSE segs[1] \o << SLASH >> \o JoinPath(Tail(segs))

\* The number of leading segments two paths share.
RECURSIVE CommonSegments(_, _)
CommonSegments(a, b) ==
    IF a = << >> \/ b = << >> \/ Head(a) # Head(b) THEN 0
    ELSE 1 + CommonSegments(Tail(a), Tail(b))

DOTDOT == << ".", "." >>

\* path.relative(from, to) of node:path (posix) for two absolute paths: one
\* ".." for every segment of `from` behind the shared ones, then the segments
\* of `to` behind the shared ones.
relative(from, to) ==
    LET fs == Segments(from)
        ts == Segments(to)
        c == CommonSegments(fs, ts)
    IN  JoinPath([ k \in 1..(Len(fs) - c) |-> DOTDOT ] \o SubSeq(ts, c + 1, Len(ts)))

toRelativePath(absolutePath, root) ==
    IF StartsWith(absolutePath, root) THEN relative(root, absolutePath) ELSE absolutePath

(***************************************************************************)
(* createTrace                                                             *)
(***************************************************************************)
TraceOpts(m, positions, t, metadata) ==
    [model |-> m, rangePositions |-> positions, transcript |-> t, metadata |-> metadata]

\* A plausible slip: the default is applied only when no positions are passed.
TraceRangesUndefinedOnly(positions) ==
    IF IsDefined(positions)
    THEN [ k \in 1..Len(positions[1]) |->
             Range(positions[1][k].start_line, positions[1][k].end_line) ]
    ELSE << Range(1, 1) >>

\* opts.rangePositions?.length ? opts.rangePositions.map(...) : [{1, 1}]
TraceRanges(positions) ==
    IF IsDefined(positions) /\ Len(positions[1]) # 0
    THEN [ k \in 1..Len(positions[1]) |->
             Range(positions[1][k].start_line, positions[1][k].end_line) ]
    ELSE << Range(1, 1) >>

Conversation(url, type, modelId, ranges) ==
    [url |-> url, contributor |-> [type |-> type, model_id |-> modelId], ranges |-> ranges]

\* uuid and now are what crypto.randomUUID() and new Date() give this call.
createTrace(type, filePath, opts, env, cwd, uuid, now) ==
    LET root == getWorkspaceRoot(env, cwd)
        modelId == normalizeModelId(opts.model)
        conversationUrl ==
            IF TruthyOptString(opts.transcript)
            THEN Some(<< "f", "i", "l", "e", ":", SLASH, SLASH >> \o opts.transcript[1]) ELSE undefined
        ranges == TraceRanges(opts.rangePositions)
        conversation == Conversation(conversationUrl, type, modelId, ranges)
    IN  IF root.threw THEN Raise
        ELSE Ok([version |-> << "1", ".", "0" >>,
                 id |-> uuid,
                 timestamp |-> now,
                 vcs |-> getVcsInfo(env),
                 tool |-> getToolInfo(env),
                 files |-> << [path |-> toRelativePath(filePath, root.value[1]),
                               conversations |-> << conversation >>] >>,
                 metadata |-> opts.metadata])

(***************************************************************************)
(* JSON.stringify of a trace record                                        *)
(***************************************************************************)
QUOTE == "\""

BACKSLASH == "\\"

\* The characters of a string literal: quote, backslash and line break are
\* written as two-character escapes.
RECURSIVE Escape(_)
Escape(s) ==
    IF s = << >> THEN << >>
    ELSE (IF Head(s) = NL THEN << BACKSLASH, "n" >>
          ELSE IF Head(s) = QUOTE THEN << BACKSLASH, QUOTE >>
          ELSE IF Head(s) = BACKSLASH THEN << BACKSLASH, BACKSLASH >>
          ELSE << Head(s) >>) \o Escape(Tail(s))

\* A plausible slip: the characters are written between the quotes as they are.
StringTextRaw(s) == << QUOTE >> \o s \o << QUOTE >>

StringText(s) == << QUOTE >> \o Escape(s) \o << QUOTE >>

RECURSIVE NumberText(_)
NumberText(n) ==
    LET digit == << "0", "1", "2", "3", "4", "5", "6", "7", "8", "9" >>[(n % 10) + 1]
    IN  IF n < 10 THEN << digit >> ELSE Append(NumberText(n \div 10), digit)

RECURSIVE JoinComma(_)
JoinComma(texts) ==
    IF texts = << >> THEN << >>
    ELSE IF Len(texts) = 1 THEN texts[1]
    ELSE texts[1] \o << "," >> \o JoinComma(Tail(texts))

\* One property of an object; a property whose value is undefined is left out.
Member(key, text) == Some(StringText(key) \o << ":" >> \o text)

OptMember(key, opt, text) == IF IsDefined(opt) THEN Member(key, text) ELSE undefined

RECURSIVE Present(_)
Present(members) ==
    IF members = << >> THEN << >>
    ELSE (IF IsDefined(Head(members)) THEN << Head(members)[1] >> ELSE << >>)
         \o Present(Tail(members))

ObjectText(members) == << "{" >> \o JoinComma(Present(members)) \o << "}" >>

ArrayText(texts) == << "[" >> \o JoinComma(texts) \o << "]" >>

RangeText(r) ==
    ObjectText(<< Member(<< "s", "t", "a", "r", "t", "_", "l", "i", "n", "e" >>, NumberText(r.start_line)),
                  Member(<< "e", "n", "d", "_", "l", "i", "n", "e" >>, NumberText(r.end_line)) >>)

ContributorText(c) ==
    ObjectText(<< Member(<< "t", "y", "p", "e" >>, StringText(c.type)),
                  OptMember(<< "m", "o", "d", "e", "l", "_", "i", "d" >>, c.model_id, StringText(c.model_id[1])) >>)

ConversationText(c) ==
    ObjectText(<< OptMember(<< "u", "r", "l" >>, c.url, StringText(c.url[1])),
                  Member(<< "c", "o", "n", "t", "r", "i", "b", "u", "t", "o", "r" >>, ContributorText(c.contributor)),
                  Member(<< "r", "a", "n", "g", "e", "s" >>, ArrayText([ k \in 1..Len(c.ranges) |-> RangeText(c.ranges[k]) ])) >>)

FileText(f) ==
    ObjectText(<< Member(<< "p", "a", "t", "h" >>, StringText(f.path)),
                  Member(<< "c", "o", "n", "v", "e", "r", "s", "a", "t", "i", "o", "n", "s" >>,
                         ArrayText([ k \in 1..Len(f.conversations) |->
                                       ConversationText(f.conversations[k]) ])) >>)

VcsText(v) ==
    ObjectText(<< Member(<< "t", "y", "p", "e" >>, StringText(v.type)),
                  Member(<< "r", "e", "v", "i", "s", "i", "o", "n" >>, StringText(v.revision)) >>)

ToolText(t) ==
    ObjectText(<< Member(<< "n", "a", "m", "e" >>, StringText(t.name)),
                  OptMember(<< "v", "e", "r", "s", "i", "o", "n" >>, t.version, StringText(t.version[1])) >>)

\* metadata: a list of << key, value >> pairs, the value a string or undefined.
MetadataText(md) ==
    ObjectText([ k \in 1..Len(md) |-> OptMember(md[k][1], md[k][2], StringText(md[k][2][1])) ])

\* JSON.stringify(trace)
JSONStringify(t) ==
    ObjectText(<< Member(<< "v", "e", "r", "s", "i", "o", "n" >>, StringText(t.version)),
                  Member(<< "i", "d" >>, StringText(t.id)),
                  Member(<< "t", "i", "m", "e", "s", "t", "a", "m", "p" >>, StringText(t.timestamp)),
                  OptMember(<< "v", "c", "s" >>, t.vcs, VcsText(t.vcs[1])),
                  Member(<< "t", "o", "o", "l" >>, ToolText(t.tool)),
                  Member(<< "f", "i", "l", "e", "s" >>, ArrayText([ k \in 1..Len(t.files) |-> FileText(t.files[k]) ])),
                  OptMember(<< "m", "e", "t", "a", "d", "a", "t", "a" >>, t.metadata, MetadataText(t.metadata[1])) >>)

(***************************************************************************)
(* appendTrace: the file system calls                                      *)
(***************************************************************************)
\* existsSync(dir)
existsSync(exists) == exists

\* A plausible slip: without `recursive` an existing directory is an error.
mkdirSyncNotRecursive(exists, fault) == IF fault \/ exists THEN Raise ELSE Ok(TRUE)

\* mkdirSync(dir, { recursive: true }): an existing directory is no error; it
\* throws when the directory cannot be created (fault).
mkdirSync(exists, fault) == IF fault THEN Raise ELSE Ok(TRUE)

\* A plausible slip: the file is written, not appended to.
appendFileSyncOverwrite(content, data, dir, fault) ==
    IF fault \/ ~dir THEN Raise ELSE Ok(data)

\* appendFileSync(filePath, data): the data goes behind the present content in
\* one write; it throws when the directory is missing or the write fails.
appendFileSync(content, data, dir, fault) ==
    IF fault \/ ~dir THEN Raise ELSE Ok(content \o data)

\* JSON.stringify(trace) + "\n"
LogLine(t) == JSONStringify(t) \o << NL >>

(***************************************************************************)
(* Inputs of the range engine                                              *)
(***************************************************************************)
MaxOldLines == 2

MaxNewLines == 3

MaxFileLines == 3

MaxEdits == 2

\* The lines texts are built from: an empty line, "a", and "ba" (which ends
\* with "a", so that a text can occur in the middle of a line of the file).
LineValues == { << >>, << "a" >>, << "b", "a" >> }

\* lines.join("\n")
RECURSIVE Join(_)
Join(ls) ==
    IF Len(ls) = 1 THEN ls[1]
    ELSE ls[1] \o << NL >> \o Join(Tail(ls))

\* Every text of 1..max lines over LineValues ("" is the text of one empty line).
Texts(max) ==
    UNION { { Join(ls) : ls \in [1..n -> LineValues] } : n \in 1..max }

FileEdit(old, new, range) == [old_string |-> old, new_string |-> new, range |-> range]

ExplicitRange(s, e) == Some([start_line_number |-> s, end_line_number |-> e])

\* One edit without an explicit range, over every old and new text.
SingleEdits ==
    { FileEdit(old, new, undefined) : old \in Texts(MaxOldLines), new \in Texts(MaxNewLines) }

SingleFiles == { undefined } \cup { Some(t) : t \in Texts(MaxFileLines) }

\* The edits that lists are built from: with and without a tool-supplied
\* range, among them the edit that replaces the middle one of three lines.
ListOldTexts == { << >>, << "a" >>, << "b", "a", NL, NL, "b", "a" >> }

ListTexts ==
    { << >>, << "a" >>, << "a", NL, "b", "a" >>, << "b", "a", NL, "a", NL, "b", "a" >> }

ListEdits ==
    { FileEdit(old, new, range) :
        old \in ListOldTexts,
        new \in ListTexts,
        range \in { undefined, ExplicitRange(2, 3), ExplicitRange(3, 3) } }

ListFiles ==
    { undefined, Some(<< >>), Some(<< "a" >>),
      Some(<< "b", "a", NL, "a", NL, "b", "a" >>) }

EditLists == UNION { [1..n -> ListEdits] : n \in 0..MaxEdits }

(***************************************************************************)
(* The range engine as a state machine: one call of computeRangePositions  *)
(***************************************************************************)
\* No transcript is being read.
TranscriptIdle ==
    /\ transcript = << >>
    /\ readSize = 0
    /\ reads = << >>
    /\ model = undefined
    /\ ioError = "none"
    /\ raised = FALSE

InitRanges ==
    /\ pc = "start"
    /\ TranscriptIdle
    /\ OthersIdle
    /\ rangePositions = undefined
    /\ \/ edits \in { << e >> : e \in SingleEdits } /\ fileContent \in SingleFiles
       \/ edits \in EditLists /\ fileContent \in ListFiles

ComputeRangePositions ==
    /\ pc = "start"
    /\ rangePositions' = Some(computeRangePositions(edits, fileContent))
    /\ pc' = "done"
    /\ UNCHANGED <<edits, fileContent, transcriptVars, otherVars>>

NextRanges == ComputeRangePositions

SpecRanges == InitRanges /\ [][NextRanges]_vars

(***************************************************************************)
(* The transcript reader as a state machine: one call of                   *)
(* extractModelFromTranscript on a file that does not change meanwhile     *)
(***************************************************************************)
MaxTranscriptLines == 4

\* The lines transcripts are built from: blank lines, records with and
\* without a model, null, and malformed lines (one of which ends in the text
\* of a record).
TranscriptLines ==
    { << >>, << SP >>, << "n" >>, << "{", "}" >>, << "{", "A", "}" >>,
      << "{", "B", "}", SP >>, << "x", "{", "A", "}" >> }

\* Every file of 1..MaxTranscriptLines such lines; a last empty line is a
\* file that ends with a line break, one empty line is the empty file.
Transcripts ==
    UNION { { Join(ls) : ls \in [1..n -> TranscriptLines] } : n \in 1..MaxTranscriptLines }

\* No range is being computed.
RangesIdle ==
    /\ edits = << >>
    /\ fileContent = undefined
    /\ rangePositions = undefined

InitTranscript ==
    /\ pc = "start"
    /\ RangesIdle
    /\ OthersIdle
    /\ transcript \in Transcripts
    /\ readSize = 0
    /\ reads = << >>
    /\ model = undefined
    /\ ioError = "none"
    /\ raised = FALSE

\* The call ends with outcome r (a return or a throw).
Finish(r) ==
    /\ pc' = "done"
    /\ model' = r.value
    /\ raised' = (r.kind = "throw")

\* openSync or fstatSync throws.
OpenFails ==
    /\ pc = "start"
    /\ ioError' \in { "open", "stat" }
    /\ Finish(OuterCatch(Throw))
    /\ UNCHANGED <<rangeVars, otherVars, transcript, readSize, reads>>

\* openSync, fstatSync, and the initial readSize.
Open ==
    /\ pc = "start"
    /\ readSize' = Min(Len(transcript), InitialReadSize)
    /\ pc' = "loop"
    /\ UNCHANGED <<rangeVars, otherVars, transcript, reads, model, ioError, raised>>

\* readSync throws.
ReadFails ==
    /\ pc = "loop"
    /\ readSize <= Len(transcript)
    /\ reads' = Append(reads, readSize)
    /\ ioError' = "read"
    /\ Finish(OuterCatch(Throw))
    /\ UNCHANGED <<rangeVars, otherVars, transcript, readSize>>

\* One round of the while loop: read the last readSize bytes and scan them.
\* (readSize never exceeds the size, so the loop is only left from inside.)
ReadWindow ==
    /\ pc = "loop"
    /\ readSize <= Len(transcript)
    /\ reads' = Append(reads, readSize)
    /\ LET r == OuterCatch(WhileBody(Window(transcript, readSize),
                                     Len(transcript), readSize))
       IN  IF r.kind = "loop"
           THEN /\ readSize' = r.readSize
                /\ UNCHANGED <<pc, model, raised>>
           ELSE /\ Finish(r)
                /\ UNCHANGED readSize
    /\ UNCHANGED <<rangeVars, otherVars, transcript, ioError>>

NextTranscript == OpenFails \/ Open \/ ReadFails \/ ReadWindow

SpecTranscript == InitTranscript /\ [][NextTranscript]_vars

(***************************************************************************)
(* Properties of the range engine (checked under SpecRanges)               *)
(***************************************************************************)
Done == pc = "done"

Result == rangePositions[1]

\* What the call returns for edit i taken alone.
Alone(i) == computeRangePositions(<< edits[i] >>, fileContent)

RECURSIVE ConcatAlone(_)
ConcatAlone(i) == IF i > Len(edits) THEN << >> ELSE Alone(i) \o ConcatAlone(i + 1)

NoOverlap(r1, r2) == r1.end_line < r2.start_line \/ r2.end_line < r1.start_line

\* start <= end everywhere, no two ranges overlap, ascending in the file.
WellFormedRanges(rs) ==
    /\ \A i \in 1..Len(rs) : rs[i].start_line <= rs[i].end_line
    /\ \A i, j \in 1..Len(rs) :
          i < j => NoOverlap(rs[i], rs[j]) /\ rs[i].start_line <= rs[j].start_line

\* The first occurrence of `needle` in `s`, stated rather than computed.
Occurs(s, needle) == \E i \in 0..Len(s) : MatchesAt(s, needle, i)

FirstOccurrence(s, needle) ==
    CHOOSE i \in 0..Len(s) :
        MatchesAt(s, needle, i) /\ \A j \in 0..(i - 1) : ~MatchesAt(s, needle, j)

\* The 1-based line on which offset idx of s lies.
LineOfOffset(s, idx) == 1 + Cardinality({ k \in 1..idx : s[k] = NL })

LineCount(s) == 1 + Cardinality({ k \in 1..Len(s) : s[k] = NL })

\* new_text occurs in the supplied, non-empty file content.
FoundInFile(new) == TruthyOptString(fileContent) /\ Occurs(fileContent[1], new)

\* The anchor line S of new_text: its first occurrence in the file, else 1.
Anchor(new) ==
    IF FoundInFile(new)
    THEN LineOfOffset(fileContent[1], FirstOccurrence(fileContent[1], new))
    ELSE 1

\* C1 as stated: for every list of edits and every optional file content, the
\* returned ranges all satisfy start_line <= end_line, are pairwise
\* non-overlapping and appear in order of first occurrence.
C1_AllRangesWellFormed == Done => WellFormedRanges(Result)

\* C1 as amended: the output is the concatenation, in edit order, of what each
\* edit yields alone, and the ranges derived for any one edit that carries no
\* explicit range satisfy start_line <= end_line, are pairwise non-overlapping
\* and ascending.
C1_DerivedRangesWellFormed ==
    Done =>
        /\ Result = ConcatAlone(1)
        /\ \A i \in 1..Len(edits) :
              ~IsDefined(edits[i].range) => WellFormedRanges(Alone(i))

\* C1 witness: one edit without explicit range has produced two separate ranges.
C1_Witness ==
    /\ Done
    /\ Len(edits) = 1
    /\ ~IsDefined(edits[1].range)
    /\ Len(Result) = 2

\* C2 as stated: every edit that carries an explicit range yields exactly that
\* range, whatever its texts (an empty new_text included) and the file content.
C2_ExplicitRangeVerbatim ==
    Done =>
        \A i \in 1..Len(edits) :
            IsDefined(edits[i].range) =>
                Alone(i) = << Range(edits[i].range[1].start_line_number,
                                    edits[i].range[1].end_line_number) >>

\* C2 as amended: every edit with a non-empty new_text that carries an explicit
\* range yields exactly that range, whatever old_text, new_text and the file
\* content are, and the output is the concatenation of the edits' ranges.
C2_ExplicitRangeVerbatimIfNewText ==
    Done =>
        /\ Result = ConcatAlone(1)
        /\ \A i \in 1..Len(edits) :
              IsDefined(edits[i].range) /\ TruthyString(edits[i].new_string) =>
                  Alone(i) = << Range(edits[i].range[1].start_line_number,
                                      edits[i].range[1].end_line_number) >>

\* C2 witness: an explicit range was emitted for an edit whose old and new
\* texts differ, with file content in which new_text occurs on another line.
C2_Witness ==
    /\ Done
    /\ Len(edits) = 1
    /\ IsDefined(edits[1].range)
    /\ TruthyString(edits[1].old_string)
    /\ edits[1].old_string # edits[1].new_string
    /\ FoundInFile(edits[1].new_string)
    /\ LineCount(edits[1].new_string) = 2
    /\ Anchor(edits[1].new_string) # edits[1].range[1].start_line_number
    /\ Result = << Range(edits[1].range[1].start_line_number,
                         edits[1].range[1].end_line_number) >>

\* The edits whose new_text is not empty, in order.
WithNewText == SelectSeq(edits, LAMBDA e : e.new_string # << >>)

\* C3: an edit whose new_text is empty contributes no range, with or without an
\* explicit range and file content, and the output is what the other edits
\* yield without it.
C3_EmptyNewTextDropped ==
    Done =>
        /\ \A i \in 1..Len(edits) : edits[i].new_string = << >> => Alone(i) = << >>
        /\ Result = ConcatAlone(1)
        /\ Result = computeRangePositions(WithNewText, fileContent)

\* C3 witness: a list holding an edit with empty new_text and an explicit range
\* next to an edit that did yield a range.
C3_Witness ==
    /\ Done
    /\ Len(edits) = 2
    /\ edits[1].new_string = << >>
    /\ IsDefined(edits[1].range)
    /\ TruthyString(edits[1].old_string)
    /\ TruthyOptString(fileContent)
    /\ Len(Result) = 1

\* C4 as stated: an edit without explicit range whose old_text equals its
\* new_text yields no range, also without file content or when new_text is not
\* found in it.
C4_NoOpEditYieldsNothing ==
    Done =>
        \A i \in 1..Len(edits) :
            ~IsDefined(edits[i].range) /\ edits[i].old_string = edits[i].new_string
                => Alone(i) = << >>

\* C4 as amended: such an edit yields no range when its text is empty or occurs
\* in the supplied file content; otherwise (no file content, or new_text not
\* found in it) the fallback emits the single range {1, n} over its n lines.
C4_NoOpEditYieldsNothingIfFound ==
    Done =>
        \A i \in 1..Len(edits) :
            ~IsDefined(edits[i].range) /\ edits[i].old_string = edits[i].new_string
                => Alone(i) =
                      IF edits[i].new_string = << >> \/ FoundInFile(edits[i].new_string)
                      THEN << >>
                      ELSE << Range(1, LineCount(edits[i].new_string)) >>

\* C4 witness: a multi-line no-op edit found in the file yielded nothing.
C4_Witness ==
    /\ Done
    /\ Len(edits) = 1
    /\ ~IsDefined(edits[1].range)
    /\ edits[1].old_string = edits[1].new_string
    /\ LineCount(edits[1].new_string) = 2
    /\ FoundInFile(edits[1].new_string)
    /\ Result = << >>

\* The offsets diffToFindChangedLines classifies as changed.
ChangedSet(old, new) ==
    LET c == diffToFindChangedLines(old, new) IN { c[k] : k \in 1..Len(c) }

\* The maximal runs <<a, b>> of consecutive members of a set of offsets.
MaximalRuns(ch) ==
    { ab \in ch \X ch :
        /\ ab[1] <= ab[2]
        /\ \A x \in ab[1]..ab[2] : x \in ch
        /\ (ab[1] - 1) \notin ch
        /\ (ab[2] + 1) \notin ch }

\* C5: for an edit without explicit range, with non-empty old_text and new_text
\* found in the file at line S, the output is exactly the maximal runs [a..b] of
\* changed offsets as {S+a, S+b}, ascending, no two overlapping or adjacent, and
\* nothing when no line is changed.
C5_MaximalRunsOfChangedLines ==
    Done =>
        \A i \in 1..Len(edits) :
            LET e == edits[i] IN
            /\ ~IsDefined(e.range)
            /\ TruthyString(e.old_string)
            /\ TruthyString(e.new_string)
            /\ FoundInFile(e.new_string)
            => LET S    == Anchor(e.new_string)
                   runs == MaximalRuns(ChangedSet(e.old_string, e.new_string))
                   out  == Alone(i)
               IN  /\ { out[k] : k \in 1..Len(out) }
                        = { Range(S + ab[1], S + ab[2]) : ab \in runs }
                   /\ Len(out) = Cardinality(runs)
                   /\ \A k \in 1..(Len(out) - 1) :
                          out[k].end_line + 1 < out[k + 1].start_line

\* C5 witness: the middle one of three lines is replaced (the line1 / NEW /
\* line3 example) and the file is the new text: exactly line 2 is emitted.
C5_Witness ==
    /\ Done
    /\ Len(edits) = 1
    /\ ~IsDefined(edits[1].range)
    /\ LineCount(edits[1].old_string) = 3
    /\ LineCount(edits[1].new_string) = 3
    /\ fileContent = Some(edits[1].new_string)
    /\ ChangedSet(edits[1].old_string, edits[1].new_string) = { 1 }
    /\ Result = << Range(2, 2) >>

\* C6: for an edit without explicit range and with non-empty new_text of n
\* lines, when old_text is empty, the file content is missing or new_text is
\* not found in it, exactly the range {S, S+n-1} is emitted, S being the line
\* of the first occurrence of new_text in the file, or 1.
C6_FallbackWholeNewText ==
    Done =>
        \A i \in 1..Len(edits) :
            LET e == edits[i] IN
            /\ ~IsDefined(e.range)
            /\ TruthyString(e.new_string)
            /\ (e.old_string = << >> \/ ~FoundInFile(e.new_string))
            => Alone(i) = << Range(Anchor(e.new_string),
                                   Anchor(e.new_string) + LineCount(e.new_string) - 1) >>

\* C6 witness: an insertion (empty old_text) of two lines anchored at its
\* occurrence on line 2 of the file.
C6_Witness ==
    /\ Done
    /\ Len(edits) = 1
    /\ ~IsDefined(edits[1].range)
    /\ edits[1].old_string = << >>
    /\ LineCount(edits[1].new_string) = 2
    /\ FoundInFile(edits[1].new_string)
    /\ Result = << Range(2, 3) >>

(***************************************************************************)
(* Properties of the transcript reader (checked under SpecTranscript)      *)
(***************************************************************************)
Size == Len(transcript)

\* The positions (1-based) of the line breaks of the file.
Breaks == { p \in 1..Size : transcript[p] = NL }

\* The text from offset o (0-based) up to the next line break or the end.
LineFrom(o) ==
    LET after == { p \in Breaks : p > o }
        stop  == IF after = {} THEN Size
                 ELSE (CHOOSE p \in after : \A q \in after : p <= q) - 1
    IN  SubSeq(transcript, o + 1, stop)

\* A text that is, white space aside, a record carrying a model field.
BearsModel(text) == \E m \in ModelIds : Tokens(text) = << "{", m, "}" >>

ModelOf(text) == CHOOSE m \in ModelIds : Tokens(text) = << "{", m, "}" >>

\* The offsets at which the lines of the file start.
FileLineStarts == { 0 } \cup Breaks

\* The offsets at which the lines of the window of the last w bytes start:
\* the window's first byte and whatever follows a line break inside it.
WindowLineStarts(w) == { Size - w } \cup { p \in Breaks : p > Size - w }

Latest(starts) == CHOOSE o \in starts : \A q \in starts : q <= o

\* The model of the last model-bearing line among those starting at `starts`.
LastModel(starts) ==
    LET bearing == { o \in starts : BearsModel(LineFrom(o)) }
    IN  IF bearing = {} THEN undefined ELSE Some(ModelOf(LineFrom(Latest(bearing))))

\* What a scan of the whole file from its end returns.
FullScan == LastModel(FileLineStarts)

\* The windows the expanding read goes through on a file of the given size.
RECURSIVE WindowsFrom(_)
WindowsFrom(w) == IF w >= Size THEN << w >> ELSE << w >> \o WindowsFrom(Min(Size, 2 * w))

AllWindows == WindowsFrom(Min(Size, InitialReadSize))

\* C7: for every transcript, the expanding-window tail read returns what a scan
\* of the whole file from the end returns: the model of the last line that is a
\* record carrying a model field, or undefined.
C7_TailReadEqualsFullScan == (Done /\ ioError = "none") => model = FullScan

\* C8: when the last model-bearing line lies inside the initial window its model
\* is returned after exactly one read of that window; in general no window read
\* before the last one held a model-bearing line, and a returned model comes
\* from the last window read.
C8_StopsAtFirstWindowWithModel ==
    (Done /\ ioError = "none") =>
        LET bearing == { o \in FileLineStarts : BearsModel(LineFrom(o)) }
            first   == Min(Size, InitialReadSize)
        IN  /\ (bearing # {} /\ Latest(bearing) >= Size - first) =>
                  /\ model = FullScan
                  /\ reads = << first >>
            /\ \A k \in 1..(Len(reads) - 1) :
                  /\ LastModel(WindowLineStarts(reads[k])) = undefined
                  /\ \A o \in bearing : o < Size - reads[k]
            /\ IsDefined(model) => model = LastModel(WindowLineStarts(reads[Len(reads)]))

\* C8 witness: a file larger than twice the initial window whose last record
\* carries a model and lies inside that window, while an earlier record before
\* the window carries another model: one read was made.
C8_Witness ==
    /\ Done
    /\ ioError = "none"
    /\ Size > 2 * InitialReadSize
    /\ reads = << Min(Size, InitialReadSize) >>
    /\ IsDefined(model)
    /\ LET before == LastModel({ o \in FileLineStarts : o < Size - InitialReadSize })
       IN  IsDefined(before) /\ before # model

\* C9: on a transcript with no model-bearing line the call returns undefined
\* after reading the windows min(size, initial), doubled and capped at the
\* size, strictly growing up to the whole file, and nothing after that.
C9_NoModelScansWholeFile ==
    (Done /\ ioError = "none" /\ FullScan = undefined) =>
        /\ model = undefined
        /\ reads = AllWindows
        /\ reads[Len(reads)] = Size
        /\ \A k \in 1..(Len(reads) - 1) : reads[k] < reads[k + 1]

\* The last line of the window of w bytes that is neither blank nor malformed
\* nor without a model decides; every line behind it is skipped.
SkippedOrDecides(w) ==
    LET starts  == WindowLineStarts(w)
        bearing == { o \in starts : BearsModel(LineFrom(o)) }
    IN  IF bearing = {} THEN model = undefined
        ELSE model = Some(ModelOf(LineFrom(Latest(bearing))))

\* C10: the call never raises; a failure to open, stat or read the file yields
\* undefined; blank lines, malformed lines and JSON values without
\* message.model (null and non-objects included) are skipped and the scan goes
\* on with the line before.
C10_NeverRaisesAndSkips ==
    /\ ~raised
    /\ Done =>
          /\ (ioError # "none" => model = undefined)
          /\ (ioError = "none" => SkippedOrDecides(reads[Len(reads)]))

\* C10 witness: a model was returned from a window in which JSON null, a
\* record without model, a malformed line and a blank line all follow the
\* record that carries it.
C10_Witness ==
    /\ Done
    /\ ioError = "none"
    /\ IsDefined(model)
    /\ LET w       == reads[Len(reads)]
           starts  == WindowLineStarts(w)
           last    == Latest({ o \in starts : BearsModel(LineFrom(o)) })
           behind  == { LineFrom(o) : o \in { q \in starts : q > last } }
       IN  /\ << "n" >> \in behind
           /\ << "{", "}" >> \in behind
           /\ << >> \in behind

\* C10 witness, failure side: the read failed after the window had grown.
C10_ReadFailureWitness ==
    /\ Done
    /\ ioError = "read"
    /\ Len(reads) = 2
    /\ model = undefined

(***************************************************************************)
(* normalizeModelId as a state machine: the function is applied to a raw   *)
(* model and then to its own result                                        *)
(***************************************************************************)
MaxTailLen == 2

\* How an id begins: the known prefixes, near misses of them, a provider
\* already in front, an unknown family, nothing.
ModelHeads ==
    { << >>,
      << "c", "l", "a", "u", "d", "e", "-" >>, << "c", "l", "a", "u", "d", "e" >>,
      << "g", "p", "t", "-" >>, << "g", "p", "t" >>,
      << "g", "e", "m", "i", "n", "i", "-" >>, << "g", "e", "m", "i", "n", "i" >>,
      << "m", "i", "s", "t", "r", "a", "l", "-" >>,
      ANTHROPIC \o << SLASH >>,
      << SP, "o" >> }

TailChars == { "o", "1", "3", "-", SLASH }

\* Every text of at most n characters over TailChars.
RECURSIVE ModelTails(_)
ModelTails(n) ==
    IF n = 0 THEN { << >> }
    ELSE ModelTails(n - 1) \cup
         { Append(t, c) : t \in { u \in ModelTails(n - 1) : Len(u) = n - 1 }, c \in TailChars }

RawModels ==
    { undefined } \cup { Some(h \o t) : h \in ModelHeads, t \in ModelTails(MaxTailLen) }

InitNormalize ==
    /\ pc = "start"
    /\ RangesIdle /\ TranscriptIdle /\ TraceIdle /\ StoreIdle /\ HookIdle /\ DiffIdle
    /\ rawModel \in RawModels
    /\ normalized = undefined
    /\ renormalized = undefined

Normalize ==
    /\ pc = "start"
    /\ normalized' = normalizeModelId(rawModel)
    /\ pc' = "normalized"
    /\ UNCHANGED <<rawModel, renormalized, rangeVars, transcriptVars, traceVars, storeVars, hook, diff>>

NormalizeAgain ==
    /\ pc = "normalized"
    /\ renormalized' = normalizeModelId(normalized)
    /\ pc' = "done"
    /\ UNCHANGED <<rawModel, normalized, rangeVars, transcriptVars, traceVars, storeVars, hook, diff>>

NextNormalize == Normalize \/ NormalizeAgain

SpecNormalize == InitNormalize /\ [][NextNormalize]_vars

(***************************************************************************)
(* Properties of normalizeModelId (checked under SpecNormalize)            *)
(***************************************************************************)
\* The text begins with the given characters.
Begins(s, p) == Len(p) <= Len(s) /\ SubSeq(s, 1, Len(p)) = p

\* The provider the table gives an unqualified id, << >> when it gives none.
ProviderOf(s) ==
    IF Begins(s, << "c", "l", "a", "u", "d", "e", "-" >>) THEN ANTHROPIC
    ELSE IF \/ Begins(s, << "g", "p", "t", "-" >>)
            \/ Begins(s, << "o", "1" >>)
            \/ Begins(s, << "o", "3" >>) THEN OPENAI
    ELSE IF Begins(s, << "g", "e", "m", "i", "n", "i", "-" >>) THEN GOOGLE
    ELSE << >>

Qualified(s) == \E k \in 1..Len(s) : s[k] = SLASH

\* C11: undefined or empty gives undefined; an id containing "/" is returned
\* unchanged; otherwise the first entry of the table (claude-, gpt-, o1, o3,
\* gemini-) whose prefix the id starts with gives "<provider>/<id>", and with no
\* such entry the id is returned unchanged.
C11_NormalizeByTable ==
    pc # "start" =>
        IF rawModel = undefined \/ rawModel = Some(<< >>) THEN normalized = undefined
        ELSE LET s == rawModel[1] IN
             IF Qualified(s) THEN normalized = rawModel
             ELSE IF ProviderOf(s) # << >>
                  THEN normalized = Some(ProviderOf(s) \o << SLASH >> \o s)
             ELSE normalized = rawModel

\* C11 witness: an id with the prefix o3 was given the provider openai.
C11_Witness ==
    /\ pc # "start"
    /\ IsDefined(rawModel)
    /\ Begins(rawModel[1], << "o", "3" >>)
    /\ normalized = Some(OPENAI \o << SLASH >> \o rawModel[1])

\* C12: normalizing a normalized id changes nothing, whatever the input, and
\* an id that is already qualified is returned as it is, without a second
\* provider in front.
C12_NormalizeIdempotent ==
    /\ pc = "done" => renormalized = normalized
    /\ (pc # "start" /\ IsDefined(rawModel) /\ Qualified(rawModel[1])) =>
          normalized = rawModel

\* C12 witness: an id that was given a provider by the first application came
\* back unchanged from the second.
C12_Witness ==
    /\ pc = "done"
    /\ IsDefined(rawModel)
    /\ IsDefined(normalized)
    /\ normalized # rawModel
    /\ renormalized = normalized
    /\ Begins(normalized[1], ANTHROPIC \o << SLASH >>)

(***************************************************************************)
(* createTrace as a state machine: one call on drawn arguments             *)
(***************************************************************************)
MaxSegments == 2

\* Directory and file names; one is the other followed by a character.
SegmentNames == { << "p" >>, << "p", "2" >> }

AbsolutePaths(n) ==
    { << SLASH >> \o JoinPath(l) : l \in UNION { [1..k -> SegmentNames] : k \in 0..n } }

\* Workspace roots are absolute directories, one level above the deepest file.
Roots == AbsolutePaths(MaxSegments - 1)

\* Absolute paths, and paths as a tool reports them relative to its directory.
FilePaths ==
    AbsolutePaths(MaxSegments)
    \cup { Tail(p) : p \in AbsolutePaths(MaxSegments) \ { << SLASH >> } }

CWD == << SLASH, "c" >>

\* The root comes from Cursor, from Claude Code, from git, from two of them at
\* once, or from nowhere.
Envs ==
    UNION { { Env(Some(r), undefined, Some(<< "1" >>), undefined, Some(<< "h", NL >>)),
              Env(undefined, Some(r), undefined, undefined, undefined),
              Env(undefined, undefined, undefined, Some(r \o << NL >>), Some(<< "h", NL >>)),
              Env(Some(r), Some(<< SLASH, "p", "2" >>), undefined, Some(<< SLASH, NL >>), undefined) }
            : r \in Roots }
    \cup { Env(undefined, undefined, undefined, undefined, undefined),
           Env(undefined, undefined, Some(<< "1" >>), undefined, undefined) }

RangePositionLists ==
    { undefined, Some(<< >>), Some(<< Range(2, 3) >>),
      Some(<< Range(3, 3), Range(1, 2) >>), Some(<< Range(1, 1), Range(1, 1) >>) }

TraceOptsPool ==
    { TraceOpts(undefined, rp, undefined, undefined) : rp \in RangePositionLists }
    \cup { TraceOpts(mo, Some(<< Range(2, 3) >>), t, md) :
             mo \in { undefined, Some(<< "o", "1" >>), Some(<< "x" >>) },
             t \in { undefined, Some(<< >>), Some(<< SLASH, "t" >>) },
             md \in { undefined, Some(<< << << "e", "v", "e", "n", "t" >>, Some(<< "s", "e", "s", "s", "i", "o", "n", "_", "s", "t", "a", "r", "t" >>) >>,
                                          << << "s", "e", "s", "s", "i", "o", "n", "_", "i", "d" >>, undefined >> >>) } }

UUIDs == { << "u", "1" >>, << "u", "2" >> }

\* new Date().toISOString()
NOW == << "t", "0" >>

AI == << "a", "i" >>

TraceArgs(type, filePath, opts, env) ==
    [type |-> type, filePath |-> filePath, opts |-> opts, env |-> env]

InitTrace ==
    /\ pc = "start"
    /\ RangesIdle /\ TranscriptIdle /\ NormalizeIdle /\ StoreIdle /\ HookIdle /\ DiffIdle
    /\ traceArgs \in { TraceArgs(ty, f, o, e) :
                         ty \in { AI }, f \in FilePaths, o \in TraceOptsPool, e \in Envs }
    /\ trace = undefined

CreateTrace ==
    /\ pc = "start"
    /\ \E uuid \in UUIDs :
          trace' = Some(createTrace(traceArgs.type, traceArgs.filePath, traceArgs.opts,
                                    traceArgs.env, CWD, uuid, NOW))
    /\ pc' = "done"
    /\ UNCHANGED <<traceArgs, rangeVars, transcriptVars, normalizeVars, storeVars, hook, diff>>

SpecTrace == InitTrace /\ [][CreateTrace]_vars

(***************************************************************************)
(* Properties of createTrace and toRelativePath (checked under SpecTrace)  *)
(***************************************************************************)
\* createTrace was called and returned a record.
TraceReturned == pc = "done" /\ IsDefined(trace) /\ ~trace[1].threw

TraceRecord == trace[1].value[1]

\* C13: a record returned by createTrace has exactly one files entry with
\* exactly one conversation, whose ranges are never empty: [{1, 1}] when the
\* range positions are absent or empty, otherwise the supplied positions in
\* the same number and order.
C13_OneFileOneConversationRanges ==
    TraceReturned =>
        /\ Len(TraceRecord.files) = 1
        /\ Len(TraceRecord.files[1].conversations) = 1
        /\ LET ranges == TraceRecord.files[1].conversations[1].ranges
               supplied == traceArgs.opts.rangePositions
           IN  /\ ranges # << >>
               /\ (supplied = undefined \/ supplied = Some(<< >>)) =>
                      ranges = << Range(1, 1) >>
               /\ (supplied # undefined /\ supplied # Some(<< >>)) =>
                      ranges = supplied[1]

\* C13 witness: an empty list of positions was passed and the record carries
\* the default range.
C13_Witness ==
    /\ TraceReturned
    /\ traceArgs.opts.rangePositions = Some(<< >>)
    /\ TraceRecord.files[1].conversations[1].ranges = << Range(1, 1) >>

\* C13, second case: two positions in descending order came out as passed.
C13_SuppliedWitness ==
    /\ TraceReturned
    /\ traceArgs.opts.rangePositions = Some(<< Range(3, 3), Range(1, 2) >>)
    /\ TraceRecord.files[1].conversations[1].ranges = << Range(3, 3), Range(1, 2) >>

\* The path names the root directory or an entry below it.
UnderRoot(path, root) ==
    /\ path # << >> /\ Head(path) = SLASH
    /\ Len(Segments(root)) <= Len(Segments(path))
    /\ SubSeq(Segments(path), 1, Len(Segments(root))) = Segments(root)

\* C14: the record's path is the file path relative to the workspace root,
\* without any ".." segment, when the file path is the root or lies below it
\* (empty when it is the root); otherwise, also for a sibling whose name only
\* begins with the root's text and for a tool-relative path, it is the file
\* path unchanged.
C14_RelativeOnlyUnderRoot ==
    TraceReturned =>
        LET path == traceArgs.filePath
            root == getWorkspaceRoot(traceArgs.env, CWD).value[1]
            result == TraceRecord.files[1].path
        IN  IF UnderRoot(path, root)
            THEN /\ result = JoinPath(SubSeq(Segments(path), Len(Segments(root)) + 1,
                                             Len(Segments(path))))
                 /\ \A k \in 1..Len(Segments(result)) : Segments(result)[k] # DOTDOT
            ELSE result = path

(***************************************************************************)
(* appendTrace as a state machine: independent invocations, each with one  *)
(* record, share the log directory and the log file                        *)
(***************************************************************************)
MaxWriters == 2

\* The log as earlier invocations left it: no file, or one line.
PriorLine == << "{", "}", NL >>

InitialLogs == { << >>, PriorLine }

\* Records as createTrace builds them; the commands hold a line break, or a
\* backslash, a quote and the letter n.
StoreTrace(uuid, metadata) ==
    createTrace(AI, << SLASH, "p", SLASH, "s" >>,
                TraceOpts(Some(<< "o", "1" >>), Some(<< Range(2, 3) >>), undefined, metadata),
                Env(Some(<< SLASH, "p" >>), undefined, Some(<< "1" >>), undefined, undefined),
                CWD, uuid, NOW).value[1]

StoreTraces ==
    { StoreTrace(<< "u", "1" >>, undefined),
      StoreTrace(<< "u", "1" >>, Some(<< << << "c", "o", "m", "m", "a", "n", "d" >>, Some(<< "a", NL, "b" >>) >> >>)),
      StoreTrace(<< "u", "2" >>, Some(<< << << "c", "o", "m", "m", "a", "n", "d" >>, Some(<< "a", BACKSLASH, "n", QUOTE >>) >> >>)) }

\* What goes wrong for an invocation: nothing, the directory cannot be created,
\* or the write fails.
Faults == { "none", "mkdir", "append" }

InitStore ==
    /\ pc = "store"
    /\ RangesIdle /\ TranscriptIdle /\ NormalizeIdle /\ TraceIdle /\ HookIdle /\ DiffIdle
    /\ log \in InitialLogs
    /\ dirExists \in BOOLEAN
    /\ log # << >> => dirExists
    /\ writers \in [1..MaxWriters -> [pc : { "start" }, sawDir : { FALSE }, trace : StoreTraces, fault : Faults]]

\* const dir = join(root, ".agent-trace"); existsSync(dir)
CheckDir(w) ==
    /\ writers[w].pc = "start"
    /\ writers' = [writers EXCEPT ![w].sawDir = existsSync(dirExists), ![w].pc = "checked"]
    /\ UNCHANGED <<pc, log, dirExists, rangeVars, transcriptVars, normalizeVars, traceVars, hook, diff>>

\* if (!existsSync(dir)) mkdirSync(dir, { recursive: true })
MakeDir(w) ==
    /\ writers[w].pc = "checked"
    /\ ~writers[w].sawDir
    /\ LET r == mkdirSync(dirExists, writers[w].fault = "mkdir")
       IN  IF r.threw
           THEN /\ writers' = [writers EXCEPT ![w].pc = "failed"]
                /\ UNCHANGED dirExists
           ELSE /\ writers' = [writers EXCEPT ![w].pc = "made"]
                /\ dirExists' = TRUE
    /\ UNCHANGED <<pc, log, rangeVars, transcriptVars, normalizeVars, traceVars, hook, diff>>

\* appendFileSync(filePath, JSON.stringify(trace) + "\n", "utf-8")
AppendLine(w) ==
    /\ \/ writers[w].pc = "made"
       \/ writers[w].pc = "checked" /\ writers[w].sawDir
    /\ LET r == appendFileSync(log, LogLine(writers[w].trace), dirExists,
                               writers[w].fault = "append")
       IN  IF r.threw
           THEN /\ writers' = [writers EXCEPT ![w].pc = "failed"]
                /\ UNCHANGED log
           ELSE /\ writers' = [writers EXCEPT ![w].pc = "done"]
                /\ log' = r.value[1]
    /\ UNCHANGED <<pc, dirExists, rangeVars, transcriptVars, normalizeVars, traceVars, hook, diff>>

NextStore == \E w \in 1..MaxWriters : CheckDir(w) \/ MakeDir(w) \/ AppendLine(w)

SpecStore == InitStore /\ [][NextStore]_vars

(***************************************************************************)
(* Properties of appendTrace (checked under SpecStore)                     *)
(***************************************************************************)
\* The positions of the line breaks of a text, and their number.
BreaksOf(s) == { k \in 1..Len(s) : s[k] = NL }

LineBreaks(s) == Cardinality(BreaksOf(s))

\* The position of the i-th line break, 0 for i = 0.
NthBreak(s, i) ==
    IF i = 0 THEN 0
    ELSE CHOOSE k \in BreaksOf(s) : Cardinality({ j \in BreaksOf(s) : j <= k }) = i

\* The content the log had before the first invocation: no record is
\* serialized as "{}".
InitialLog == IF Begins(log, PriorLine) THEN PriorLine ELSE << >>

Appended == { w \in 1..MaxWriters : writers[w].pc = "done" }

\* C15: the log only grows at its end.  Every step leaves the log as it is or
\* puts behind it the serialization of the record of the invocation that
\* appends, which holds no line break, and one line break; so the log is
\* always its previous content followed by one line per successful append.
C15_AppendOnly ==
    /\ [](LineBreaks(log) = LineBreaks(InitialLog) + Cardinality(Appended))
    /\ [][ \/ log' = log
           \/ \E w \in 1..MaxWriters :
                 /\ writers[w].pc # "done" /\ writers'[w].pc = "done"
                 /\ \A v \in 1..MaxWriters : v # w => writers'[v] = writers[v]
                 /\ LineBreaks(JSONStringify(writers[w].trace)) = 0
                 /\ log' = log \o JSONStringify(writers[w].trace) \o << NL >> ]_vars

\* C15 witness: behind the earlier content, two records were appended, the
\* first of them with a line break in its command.
C15_Witness ==
    /\ Appended = 1..MaxWriters
    /\ writers[1].trace.metadata = Some(<< << << "c", "o", "m", "m", "a", "n", "d" >>, Some(<< "a", NL, "b" >>) >> >>)
    /\ writers[2].trace.metadata = Some(<< << << "c", "o", "m", "m", "a", "n", "d" >>, Some(<< "a", BACKSLASH, "n", QUOTE >>) >> >>)
    /\ log = PriorLine \o LogLine(writers[1].trace) \o LogLine(writers[2].trace)

\* The lines of a text, each ended by a line break.
LinesOf(s) ==
    [ i \in 1..LineBreaks(s) |-> SubSeq(s, NthBreak(s, i - 1) + 1, NthBreak(s, i) - 1) ]

AllFinished == \A w \in 1..MaxWriters : writers[w].pc \in { "done", "failed" }

\* C16: when every invocation has finished, whatever the interleaving of the
\* directory checks, directory creations and appends, the log holds behind its
\* earlier content exactly one line for each invocation that appended, each the
\* complete serialization of that invocation's record: N lines when none of the
\* N invocations failed.
C16_ConcurrentAppendsAllLand ==
    AllFinished =>
        LET added == SubSeq(log, Len(InitialLog) + 1, Len(log))
            lines == LinesOf(added)
        IN  /\ added # << >> => added[Len(added)] = NL
            /\ Len(lines) = Cardinality(Appended)
            /\ \E f \in [1..Len(lines) -> Appended] :
                  /\ \A i, j \in 1..Len(lines) : f[i] = f[j] => i = j
                  /\ \A i \in 1..Len(lines) : lines[i] = JSONStringify(writers[f[i]].trace)
            /\ (\A w \in 1..MaxWriters : writers[w].fault = "none") =>
                  Cardinality(Appended) = MaxWriters

\* C16 witness: two invocations with different records both saw the directory
\* missing, both created it, and the second one's record is the first line.
C16_Witness ==
    /\ AllFinished
    /\ Appended = 1..MaxWriters
    /\ \A w \in 1..MaxWriters : ~writers[w].sawDir
    /\ writers[1].trace # writers[2].trace
    /\ log = LogLine(writers[2].trace) \o LogLine(writers[1].trace)

\* The invocations that found the directory missing and went on to create it.
Creators ==
    { w \in 1..MaxWriters : ~writers[w].sawDir /\ writers[w].pc \in { "made", "done", "failed" } }

\* C21: the unsynchronised check-then-create of the log directory is benign.
\* An invocation that found the directory missing and calls mkdirSync when
\* another invocation has created it meanwhile does not fail for that: unless
\* the directory cannot be created at all, the call returns with the directory
\* in place.  So an invocation whose environment lets nothing go wrong never
\* fails after the check, its append finds the directory, and when all
\* invocations found the directory missing and all have finished, the record
\* of each is a line of the log.
C21_CheckThenCreateBenign ==
    /\ [][ \A w \in 1..MaxWriters :
              ( /\ writers[w].pc = "checked" /\ ~writers[w].sawDir
                /\ writers'[w].pc # "checked"
                /\ dirExists
                /\ writers[w].fault # "mkdir" )
              => writers'[w].pc = "made" /\ dirExists' ]_vars
    /\ [](\A w \in Creators :
              writers[w].fault = "none" =>
                  /\ writers[w].pc # "failed"
                  /\ dirExists)
    /\ []( ( /\ AllFinished
             /\ Creators = 1..MaxWriters
             /\ \A w \in 1..MaxWriters : writers[w].fault = "none" )
           => /\ Appended = 1..MaxWriters
              /\ \A w \in 1..MaxWriters :
                    \E i \in 1..LineBreaks(log) :
                        LinesOf(log)[i] = JSONStringify(writers[w].trace) )

\* C21 witness: every invocation found the directory missing before any of
\* them created it, so all but the first called mkdirSync on the directory
\* that was there already; nothing else went wrong, and the record of each
\* is in the log, the first invocation's record first.
C21_Witness ==
    /\ AllFinished
    /\ Creators = 1..MaxWriters
    /\ \A w \in 1..MaxWriters : writers[w].fault = "none" /\ writers[w].pc = "done"
    /\ writers[1].trace # writers[2].trace
    /\ Begins(log, LogLine(writers[1].trace) \o LogLine(writers[2].trace))

(***************************************************************************)
(* appendTrace as one call, and the hook handler                           *)
(***************************************************************************)
\* appendTrace(trace) on the log `content` and with the log directory present
\* or not (dir): what ended the call ("none": it returned), the log and the
\* directory behind it, and the number of calls of appendFileSync.
appendTrace(t, env, fault, content, dir) ==
    LET root == getWorkspaceRoot(env, CWD)
        made == IF existsSync(dir) THEN Ok(TRUE) ELSE mkdirSync(dir, fault = "mkdir")
        written == appendFileSync(content, LogLine(t), dir \/ ~made.threw, fault = "append")
    IN  IF root.threw
        THEN [cause |-> "root", log |-> content, dirExists |-> dir, appends |-> 0]
        ELSE IF made.threw
        THEN [cause |-> "mkdir", log |-> content, dirExists |-> dir, appends |-> 0]
        ELSE IF written.threw
        THEN [cause |-> "append", log |-> content, dirExists |-> TRUE, appends |-> 1]
        ELSE [cause |-> "none", log |-> written.value[1], dirExists |-> TRUE, appends |-> 1]

\* The while loop of extractModelFromTranscript, from readSize n on.
RECURSIVE ExtractLoop(_, _)
ExtractLoop(bytes, n) ==
    LET r == WhileBody(Window(bytes, n), Len(bytes), n)
    IN  IF r.kind = "loop" THEN ExtractLoop(bytes, r.readSize) ELSE r

\* extractModelFromTranscript(path) as one call; file is the content at the
\* path, undefined when it cannot be opened.  The model is returned as text.
extractModelFromTranscript(file) ==
    LET r == OuterCatch(IF IsDefined(file)
                        THEN ExtractLoop(file[1], Min(Len(file[1]), InitialReadSize))
                        ELSE Throw)
    IN  IF IsDefined(r.value) THEN Some(<< r.value[1] >>) ELSE undefined

resolveModel(input, transcriptFile) ==
    IF TruthyOptString(input.model) THEN input.model
    ELSE IF TruthyOptString(input.transcript_path)
    THEN extractModelFromTranscript(transcriptFile)
    ELSE undefined

\* handlers[input.hook_event_name]?.(input) up to the call of createTrace: the
\* file path and the options the handler passes, undefined when no handler
\* runs or the handler returns early.  file is what tryReadFile gives for the
\* edited file (undefined: unreadable), transcriptFile the transcript's content.
\* Metadata values that are not strings are left out.
handlers(input, file, transcriptFile) ==
    LET ev == input.hook_event_name
        call(path, opts) == Some([file |-> path, opts |-> opts])
        orEmpty(o) == IF IsDefined(o) THEN o[1] ELSE << >>
        toolInput(field) ==
            IF IsDefined(input.tool_input) THEN input.tool_input[1][field] ELSE undefined
        toolName == orEmpty(input.tool_name)
        isFileEdit == toolName = << "W", "r", "i", "t", "e" >> \/ toolName = << "E", "d", "i", "t" >>
        isBash == toolName = << "B", "a", "s", "h" >>
    IN  CASE ev = "afterFileEdit" ->
               call(input.file_path[1],
                    TraceOpts(input.model,
                              Some(computeRangePositions(orEmpty(input.edits), file)),
                              input.transcript_path,
                              Some(<< << << "c", "o", "n", "v", "e", "r", "s", "a", "t", "i", "o", "n", "_", "i", "d" >>, input.conversation_id >> >>)))
          [] ev = "afterTabFileEdit" ->
               call(input.file_path[1],
                    TraceOpts(input.model,
                              Some(computeRangePositions(orEmpty(input.edits), undefined)),
                              undefined,
                              Some(<< << << "c", "o", "n", "v", "e", "r", "s", "a", "t", "i", "o", "n", "_", "i", "d" >>, input.conversation_id >> >>)))
          [] ev = "afterShellExecution" ->
               call(<< ".", "s", "h", "e", "l", "l", "-", "h", "i", "s", "t", "o", "r", "y" >>,
                    TraceOpts(input.model, undefined, input.transcript_path,
                              Some(<< << << "c", "o", "n", "v", "e", "r", "s", "a", "t", "i", "o", "n", "_", "i", "d" >>, input.conversation_id >>,
                                      << << "c", "o", "m", "m", "a", "n", "d" >>, input.command >> >>)))
          [] ev \in { "sessionStart", "sessionEnd" } ->
               call(<< ".", "s", "e", "s", "s", "i", "o", "n", "s" >>,
                    TraceOpts(input.model, undefined, undefined,
                              Some(<< << << "e", "v", "e", "n", "t" >>, Some(IF ev = "sessionStart"
                                                       THEN << "s", "e", "s", "s", "i", "o", "n", "_", "s", "t", "a", "r", "t" >>
                                                       ELSE << "s", "e", "s", "s", "i", "o", "n", "_", "e", "n", "d" >>) >>,
                                      << << "c", "o", "n", "v", "e", "r", "s", "a", "t", "i", "o", "n", "_", "i", "d" >>, input.conversation_id >> >>)))
          [] ev = "PostToolUse" ->
               IF ~isFileEdit /\ ~isBash THEN undefined
               ELSE call(IF isBash THEN << ".", "s", "h", "e", "l", "l", "-", "h", "i", "s", "t", "o", "r", "y" >>
                         ELSE IF IsDefined(toolInput("file_path")) THEN toolInput("file_path")[1]
                         ELSE << ".", "u", "n", "k", "n", "o", "w", "n" >>,
                         TraceOpts(resolveModel(input, transcriptFile),
                                   IF isFileEdit /\ TruthyOptString(toolInput("new_string"))
                                   THEN Some(computeRangePositions(
                                               << FileEdit(orEmpty(toolInput("old_string")),
                                                           toolInput("new_string")[1], undefined) >>,
                                               file))
                                   ELSE undefined,
                                   input.transcript_path,
                                   Some(<< << << "t", "o", "o", "l", "_", "n", "a", "m", "e" >>, Some(toolName) >>,
                                           << << "c", "o", "m", "m", "a", "n", "d" >>, IF isBash THEN toolInput("command")
                                                         ELSE undefined >> >>)))
          [] ev \in { "SessionStart", "SessionEnd" } ->
               call(<< ".", "s", "e", "s", "s", "i", "o", "n", "s" >>,
                    TraceOpts(resolveModel(input, transcriptFile), undefined, undefined,
                              Some(<< << << "e", "v", "e", "n", "t" >>, Some(IF ev = "SessionStart"
                                                       THEN << "s", "e", "s", "s", "i", "o", "n", "_", "s", "t", "a", "r", "t" >>
                                                       ELSE << "s", "e", "s", "s", "i", "o", "n", "_", "e", "n", "d" >>) >> >>)))
          [] OTHER -> undefined

\* main: stdin is empty, is not JSON, or holds the event `input`.  The result
\* is the exit code, what threw ("none": nothing), the log and the log
\* directory behind the run, the number of calls of appendFileSync and the
\* records appended.  (x \in { e } names the value of e.)
main(stdin, input, world, content, dir, uuid) ==
    LET exit(code, cause, a, appended) ==
            [exit |-> code, cause |-> cause, log |-> a.log, dirExists |-> a.dirExists,
             appends |-> a.appends, appended |-> appended]
        untouched == [log |-> content, dirExists |-> dir, appends |-> 0]
    IN  IF stdin = "empty" THEN exit(0, "none", untouched, << >>)
        ELSE IF stdin = "malformed" THEN exit(1, "parse", untouched, << >>)
        ELSE CHOOSE r \in
               { IF ~IsDefined(args) THEN exit(0, "none", untouched, << >>)
                 ELSE CHOOSE r \in
                        { IF t.threw THEN exit(1, "root", untouched, << >>)
                          ELSE CHOOSE r \in
                                 { IF a.cause # "none" THEN exit(1, a.cause, a, << >>)
                                   ELSE exit(0, "none", a, << t.value[1] >>) :
                                   a \in { appendTrace(t.value[1], world.env, world.fault,
                                                       content, dir) } } : TRUE :
                          t \in { createTrace(AI, args[1].file, args[1].opts, world.env,
                                              CWD, uuid, NOW) } } : TRUE :
                 args \in { handlers(input, world.file, world.transcript) } } : TRUE

(***************************************************************************)
(* The hook handler as a state machine: one invocation of main on a drawn  *)
(* event, environment and file system                                      *)
(***************************************************************************)
HookInput(ev, m, transcriptPath, filePath, es, command, toolName, toolInput) ==
    [hook_event_name |-> ev, model |-> m, transcript_path |-> transcriptPath,
     conversation_id |-> Some(<< "c" >>), file_path |-> filePath, edits |-> es,
     command |-> command, tool_name |-> toolName, tool_input |-> toolInput]

ToolInput(filePath, new, old, command) ==
    Some([file_path |-> filePath, new_string |-> new, old_string |-> old, command |-> command])

\* Well-formed events of Cursor and of Claude Code, and one no handler knows.
HookInputs ==
    LET sources == { << undefined, undefined >>, << undefined, Some(<< SLASH, "t" >>) >>,
                     << Some(<< "g", "p", "t", "-", "4" >>), undefined >> }
        target == Some(<< SLASH, "p", SLASH, "s" >>)
        editLists == { undefined, Some(<< >>), Some(<< FileEdit(<< "a" >>, << "b", "a" >>, undefined) >>) }
        none == undefined
    IN  { HookInput("afterFileEdit", s[1], s[2], target, es, none, none, none) :
            s \in sources, es \in editLists }
        \cup { HookInput("afterTabFileEdit", s[1], none, target, es, none, none, none) :
                 s \in sources, es \in editLists }
        \cup { HookInput("afterShellExecution", s[1], s[2], none, none, Some(<< "l", "s", NL >>), none, none) :
                 s \in sources }
        \cup { HookInput(ev, s[1], s[2], none, none, none, none, none) :
                 ev \in { "sessionStart", "sessionEnd", "SessionStart", "SessionEnd", "stop" },
                 s \in sources }
        \cup { HookInput("PostToolUse", s[1], s[2], none, none, none, tool[1], tool[2]) :
                 s \in sources,
                 tool \in { << undefined, undefined >>,
                            << Some(<< "R", "e", "a", "d" >>), ToolInput(target, none, none, none) >>,
                            << Some(<< "W", "r", "i", "t", "e" >>), ToolInput(target, Some(<< "b", "a" >>), none, none) >>,
                            << Some(<< "E", "d", "i", "t" >>), ToolInput(target, Some(<< "b", "a" >>), Some(<< "a" >>), none) >>,
                            << Some(<< "E", "d", "i", "t" >>), ToolInput(none, none, none, none) >>,
                            << Some(<< "B", "a", "s", "h" >>), ToolInput(none, none, none, Some(<< "l", "s" >>)) >>,
                            << Some(<< "B", "a", "s", "h" >>), undefined >> } }

\* The environment (root from Cursor, from Claude Code, from git only, from
\* nowhere), the file system fault, and the two files: the edited file
\* (unreadable or not) and the transcript (unreadable, empty, with a model,
\* without one).
Worlds ==
    { [env |-> e, fault |-> f, file |-> files[1], transcript |-> files[2]] :
        e \in { Env(Some(<< SLASH, "p" >>), undefined, Some(<< "1" >>), undefined, Some(<< "h", NL >>)),
                Env(undefined, Some(<< SLASH, "p" >>), undefined, undefined, undefined),
                Env(undefined, undefined, undefined, Some(<< SLASH, "p", NL >>), Some(<< "h", NL >>)),
                Env(undefined, undefined, undefined, undefined, undefined) },
        f \in Faults,
        files \in { << undefined, undefined >>,
                    << undefined, Some(<< "{", "}", NL >>) >>,
                    << Some(<< "a", NL, "b", "a" >>), Some(<< >>) >>,
                    << Some(<< "a", NL, "b", "a" >>), Some(<< "{", "A", "}", NL >>) >> } }

InitHook ==
    /\ pc = "start"
    /\ RangesIdle /\ TranscriptIdle /\ NormalizeIdle /\ TraceIdle /\ DiffIdle
    /\ log \in InitialLogs
    /\ dirExists \in BOOLEAN
    /\ log # << >> => dirExists
    /\ writers = << >>
    /\ \E stdin \in { "empty", "malformed", "event" }, input \in HookInputs, world \in Worlds :
          /\ stdin # "event" => input = HookInput("stop", undefined, undefined, undefined,
                                                  undefined, undefined, undefined, undefined)
          /\ hook = [stdin |-> stdin, input |-> input, world |-> world,
                     exit |-> -1, cause |-> "none", appends |-> 0, appended |-> << >>]

\* The whole run of main, until the process exits.
Main ==
    /\ pc = "start"
    /\ \E uuid \in UUIDs :
          \E r \in { main(hook.stdin, hook.input, hook.world, log, dirExists, uuid) } :
             /\ hook' = [hook EXCEPT !.exit = r.exit, !.cause = r.cause,
                                     !.appends = r.appends, !.appended = r.appended]
             /\ log' = r.log
             /\ dirExists' = r.dirExists
    /\ pc' = "done"
    /\ UNCHANGED <<rangeVars, transcriptVars, normalizeVars, traceVars, writers, diff>>

SpecHook == InitHook /\ [][Main]_vars

(***************************************************************************)
(* Properties of the hook handler (checked under SpecHook)                 *)
(***************************************************************************)
\* main has run on a well-formed event.
Handled == pc = "done" /\ hook.stdin = "event"

\* C17: on a well-formed event the invocation exits with 1 only if creating
\* the log directory or appending to the log failed; nothing before that
\* raises, whether the edited file can be read or not, whether git answers or
\* not, and whether a workspace environment variable is set or not.
C17_ExitOneOnlyOnStoreFailure ==
    (Handled /\ hook.exit = 1) => hook.cause \in { "mkdir", "append" }

\* The handler of the event appends a record (it is no PostToolUse of another
\* tool and no unknown event).
Attributed == IsDefined(handlers(hook.input, hook.world.file, hook.world.transcript))

\* The event carries no model and none is found in its transcript.
NoModelAnywhere ==
    /\ ~TruthyOptString(hook.input.model)
    /\ extractModelFromTranscript(hook.world.transcript) = undefined

\* C18: when the event carries no model and its transcript yields none (or
\* cannot be read), the record has no model and exactly one record is appended
\* for the event; and no invocation appends more than one record or calls the
\* append a second time.
C18_NoModelStillRecorded ==
    /\ (Handled /\ Attributed /\ NoModelAnywhere /\ hook.world.fault = "none") =>
          /\ Len(hook.appended) = 1
          /\ hook.appended[1].files[1].conversations[1].contributor.model_id = undefined
          /\ log = InitialLog \o LogLine(hook.appended[1])
    /\ pc = "done" =>
          /\ hook.appends <= 1
          /\ Len(hook.appended) <= 1
          /\ LineBreaks(log) <= LineBreaks(InitialLog) + 1

(***************************************************************************)
(* The derived ranges and the lines of new_text (checked under SpecRanges) *)
(***************************************************************************)
\* C19: for an edit without explicit range and with non-empty new_text of n
\* lines, every range emitted for it has 1 <= start_line <= end_line and lies
\* inside [S, S+n-1], S being the line of the first occurrence of new_text in
\* the file content, or 1.
C19_DerivedRangesInsideNewText ==
    Done =>
        \A i \in 1..Len(edits) :
            LET e == edits[i] IN
            (~IsDefined(e.range) /\ TruthyString(e.new_string)) =>
                LET S   == Anchor(e.new_string)
                    n   == LineCount(e.new_string)
                    out == Alone(i)
                IN  \A k \in 1..Len(out) :
                        /\ 1 <= out[k].start_line
                        /\ out[k].start_line <= out[k].end_line
                        /\ S <= out[k].start_line
                        /\ out[k].end_line <= S + n - 1

\* C19 witness: new_text of two lines stands on lines 2 and 3 of the file, and
\* the diff against a non-empty old_text emitted its last line only.
C19_Witness ==
    /\ Done
    /\ Len(edits) = 1
    /\ ~IsDefined(edits[1].range)
    /\ TruthyString(edits[1].old_string)
    /\ LineCount(edits[1].new_string) = 2
    /\ Anchor(edits[1].new_string) = 2
    /\ Result = << Range(3, 3) >>

(***************************************************************************)
(* diffToFindChangedLines as a state machine: one round of the outer loop  *)
(* per step, from the state in which both texts are split                  *)
(***************************************************************************)
InitDiff ==
    /\ pc = "loop"
    /\ RangesIdle /\ TranscriptIdle /\ NormalizeIdle /\ TraceIdle /\ StoreIdle /\ HookIdle
    /\ \E oldStr \in Texts(MaxNewLines), newStr \in Texts(MaxNewLines) :
          diff = [oldStr |-> oldStr, newStr |-> newStr,
                  oldLines |-> Split(oldStr), newLines |-> Split(newStr),
                  newIdx |-> 0, oldIdx |-> 0, changedOffsets |-> << >>]

\* The loop is at a line of newStr; found is what the inner loop would give.
AtNewLine(matches, found) ==
    /\ pc = "loop"
    /\ diff.newIdx < Len(diff.newLines)
    /\ matches = (/\ diff.oldIdx < Len(diff.oldLines)
                  /\ diff.oldLines[diff.oldIdx + 1] = diff.newLines[diff.newIdx + 1])
    /\ ~matches =>
          found = (LookAhead(diff.oldLines, diff.newLines[diff.newIdx + 1], diff.oldIdx) # -1)
    /\ UNCHANGED <<pc, rangeVars, transcriptVars, normalizeVars, traceVars, storeVars, hook>>

\* oldLines[oldIdx] === newLines[newIdx]: context, oldIdx++
MatchLine ==
    /\ AtNewLine(TRUE, FALSE)
    /\ diff' = [diff EXCEPT !.newIdx = @ + 1, !.oldIdx = @ + 1]

\* The line is found further on in oldStr: oldIdx = lookAhead + 1
FoundAhead ==
    /\ AtNewLine(FALSE, TRUE)
    /\ diff' = [diff EXCEPT !.newIdx = @ + 1,
                            !.oldIdx = LookAhead(diff.oldLines, diff.newLines[diff.newIdx + 1],
                                                 diff.oldIdx) + 1]

\* Not found: changedOffsets.push(newIdx)
PushChanged ==
    /\ AtNewLine(FALSE, FALSE)
    /\ diff' = [diff EXCEPT !.newIdx = @ + 1,
                            !.changedOffsets = Append(@, diff.newIdx)]

\* return changedOffsets
ReturnOffsets ==
    /\ pc = "loop"
    /\ diff.newIdx >= Len(diff.newLines)
    /\ pc' = "done"
    /\ UNCHANGED <<diff, rangeVars, transcriptVars, normalizeVars, traceVars, storeVars, hook>>

NextDiff == MatchLine \/ FoundAhead \/ PushChanged \/ ReturnOffsets

SpecDiff == InitDiff /\ [][NextDiff]_vars

(***************************************************************************)
(* Properties of diffToFindChangedLines (checked under SpecDiff)           *)
(***************************************************************************)
\* The offsets of the lines of newStr seen so far that were not pushed.
ContextOffsets ==
    { j \in 0..(diff.newIdx - 1) :
        \A k \in 1..Len(diff.changedOffsets) : diff.changedOffsets[k] # j }

\* C20: the old-line cursor never moves backward; a line classified as context
\* consumes an old line at or behind the cursor that equals it, so each old
\* line is consumed at most once and the context lines are, in order, a
\* subsequence of the old lines (never more than there are old lines); a line
\* classified as changed leaves the cursor; and every line of new_text that
\* occurs nowhere in old_text is classified as changed.  The loop returns what
\* diffToFindChangedLines returns.
C20_ForwardGreedyMatch ==
    /\ [][ /\ diff'.oldIdx >= diff.oldIdx
           /\ (diff'.newIdx # diff.newIdx /\ diff'.changedOffsets = diff.changedOffsets) =>
                 /\ diff'.oldIdx > diff.oldIdx
                 /\ diff.oldLines[diff'.oldIdx] = diff.newLines[diff.newIdx + 1]
           /\ diff'.changedOffsets # diff.changedOffsets =>
                 /\ diff'.oldIdx = diff.oldIdx
                 /\ diff'.changedOffsets = Append(diff.changedOffsets, diff.newIdx) ]_vars
    /\ [](/\ diff.oldIdx <= Len(diff.oldLines)
          /\ Cardinality(ContextOffsets) <= diff.oldIdx
          /\ \E f \in [ContextOffsets -> 1..Len(diff.oldLines)] :
                /\ \A i, j \in ContextOffsets : i < j => f[i] < f[j]
                /\ \A j \in ContextOffsets : diff.oldLines[f[j]] = diff.newLines[j + 1]
          /\ \A j \in 0..(diff.newIdx - 1) :
                (\A k \in 1..Len(diff.oldLines) : diff.oldLines[k] # diff.newLines[j + 1])
                   => j \notin ContextOffsets
          /\ pc = "done" =>
                /\ diff.newIdx = Len(diff.newLines)
                /\ diff.changedOffsets = diffToFindChangedLines(diff.oldStr, diff.newStr))

\* C20 witness: of three new lines the first is context, the second occurs
\* nowhere in old_text and is changed, and the third is found behind an old
\* line that is skipped.
C20_Witness ==
    /\ pc = "done"
    /\ Len(diff.oldLines) = 3
    /\ Len(diff.newLines) = 3
    /\ diff.changedOffsets = << 1 >>
    /\ diff.oldIdx = 3
    /\ diff.oldLines[2] # diff.newLines[3]

====
